---- MODULE Spec2Model ----
(***************************************************************************)
(* Model of backup-log.c: the append-only backup log.                      *)
(*                                                                         *)
(*   - bkl_write / bkl_write_unlocked: appenders serialized by the         *)
(*     advisory lock file, writing straight into the log (O_APPEND).       *)
(*   - bkl_parse_file: the forward reader, one line per callback.          *)
(*   - bkl_parse_file_reverse: the block-wise reverse reader.              *)
(*                                                                         *)
(* Bytes are small integers; a file, a payload, a line and a buffer are    *)
(* sequences of bytes.  C pointers into buf[] are 0-based offsets, so the  *)
(* byte *p is buf[p + 1] of the sequence.                                  *)
(***************************************************************************)
EXTENDS Integers, Sequences, FiniteSets, TLC

\* ------------------------------------------------------------------ bounds
MaxFileLen == 5
MaxPayload == 4
MaxBufsiz == 2
HexSz == 1          \* hex digits of an object id (the_hash_algo->hexsz)
MaxPathLen == 2
MaxOutput == 40     \* bytes the output strbuf of bkl_append may hold

\* ------------------------------------------------------- program constants
LF == 10
NUL == 0
TAB == 9
SP == 32
GT == 62
PLUS == 43
MINUS == 45

\* the byte alphabet of the model: the line feed and one other byte ('a')
Bytes == {LF, 97}
Writers == {"w1", "w2"}
None == "none"
\* values a callback may return: 0 goes on, anything else stops the scan
CallbackReturns == {0, 2}

VARIABLES
    file,       \* bytes of the log file (<<>> while it does not exist)
    exists,     \* whether the log path exists
    lock,       \* holder of path.lock, or None
    w_pc,       \* per writer: position inside bkl_write
    w_buf,      \* per writer: new_log, the payload of the call in progress
    w_done,     \* per writer: bytes of new_log that write_in_full has written
    w_base,     \* per writer: length of the file when the call took the lock
    w_ret,      \* per writer: ret, the value the call is about to return
    entries,    \* history: the records of the payloads appended completely
                \* (not kept once the history is "raw")
    hist,       \* history: "log" while only whole records were written,
                \* "torn" once a write error cut a payload short,
                \* "raw" once bytes that are no records were written
    rev,        \* locals of the running bkl_parse_file_reverse call
    fwd,        \* locals of the running bkl_parse_file call
    bufsiz,     \* BUFSIZ of the build
    output,     \* the strbuf that bkl_append calls add their lines to
    ap,         \* the last bkl_append call: whether from and to were equal
    pe          \* the last bkl_parse_entry call: the line before and after
                \* the call, what it returned and what it stored in *re

vars == <<file, exists, lock, w_pc, w_buf, w_done, w_base, w_ret, entries,
          hist, rev, fwd, bufsiz, output, ap, pe>>
wvars == <<lock, w_pc, w_buf, w_done, w_base, w_ret>>
cvars == <<output, ap, pe>>
fvars == <<file, exists, wvars, entries, hist, rev, fwd, bufsiz>>

\* ----------------------------------------------------------------- helpers
Take(s, n) == SubSeq(s, 1, n)
Drop(s, n) == SubSeq(s, n + 1, Len(s))

RECURSIVE Flatten(_)
Flatten(ss) == IF ss = <<>> THEN <<>> ELSE Head(ss) \o Flatten(Tail(ss))

Reverse(s) == [i \in 1..Len(s) |-> s[Len(s) + 1 - i]]

IsPrefix(s, t) == Len(s) <= Len(t) /\ Take(t, Len(s)) = s

SeqsUpTo(S, n) == UNION {[1..k -> S] : k \in 0..n}

\* A well-formed record: a non-empty line, no LF inside, LF at the end.
IsRecord(l) ==
    /\ Len(l) >= 2
    /\ l[Len(l)] = LF
    /\ \A i \in 1..(Len(l) - 1) : l[i] # LF

\* A well-formed log or payload: a concatenation of records.
WellFormed(s) ==
    /\ Len(s) > 0 => (s[1] # LF /\ s[Len(s)] = LF)
    /\ \A i \in 1..(Len(s) - 1) : ~(s[i] = LF /\ s[i + 1] = LF)

Records == {l \in SeqsUpTo(Bytes, MaxPayload) : IsRecord(l)}
RecordSeqs ==
    {rs \in SeqsUpTo(Records, MaxPayload \div 2) : Len(Flatten(rs)) <= MaxPayload}

\* What a caller hands to bkl_write: any number of encoded records (none when
\* every entry was a no-op), or bytes that are no log at all.  Single stray
\* bytes are enough to build every file content.
LogPayloads == {Flatten(rs) : rs \in RecordSeqs}
RawPayloads == {<<b>> : b \in Bytes}
Payloads == LogPayloads \cup RawPayloads

\* The records a well-formed payload consists of.
RecordsOf(p) == CHOOSE rs \in RecordSeqs : Flatten(rs) = p

\* ----------------------------------------------------------------- writers
\* hold_lock_file_for_update(&lk, path, ...): creates path.lock exclusively;
\* a descriptor when the lock was free, -1 when somebody holds it.
hold_lock_file_for_update(l) == IF l = None THEN 1 ELSE -1

\* faulty variant: the failed lock goes unnoticed
lock_failed_ignored(ret) == FALSE

\* bkl_write: "if (ret == -1) return -1;"
lock_failed(ret) == ret = -1

\* faulty variant: no O_APPEND: the write lands at offset 0
append_write_at_start(f, chunk) ==
    chunk \o SubSeq(f, Len(chunk) + 1, Len(f))

\* faulty variant: O_TRUNC: the write replaces the log
append_write_truncating(f, chunk) == chunk

\* open(path, O_CREAT | O_WRONLY | O_APPEND) followed by write(): every
\* write() lands at the current end of the file.
append_write(f, chunk) == f \o chunk

\* rollback_lock_file(&lk): path.lock is removed, the log is not touched
\* (commit_lock_file would rename the empty path.lock over the log).
rollback_lock_file(f) == f

\* faulty variant: the error paths return without rollback_lock_file()
rollback_lock_on_success(l, w, ret) == IF l = w /\ ret = 0 THEN None ELSE l

\* rollback_lock_file(&lk) on every path that took the lock, whatever ret is
rollback_lock(l, w, ret) == IF l = w THEN None ELSE l

\* bkl_write up to the return on lock failure
bkl_write_call(w) ==
    /\ w_pc[w] = "idle"
    /\ \E new_log \in Payloads :
         /\ Len(file) + Len(new_log) <= MaxFileLen
         /\ LET ret == hold_lock_file_for_update(lock) IN
            IF lock_failed(ret)
            THEN /\ w_ret' = [w_ret EXCEPT ![w] = -1]
                 /\ w_pc' = [w_pc EXCEPT ![w] = "failed"]
                 /\ UNCHANGED <<lock, w_buf, w_done, w_base>>
            ELSE /\ lock' = IF ret = -1 THEN lock ELSE w
                 /\ w_pc' = [w_pc EXCEPT ![w] = "open"]
                 /\ w_buf' = [w_buf EXCEPT ![w] = new_log]
                 /\ w_done' = [w_done EXCEPT ![w] = 0]
                 /\ w_base' = [w_base EXCEPT ![w] = Len(file)]
                 /\ w_ret' = [w_ret EXCEPT ![w] = None]
    /\ UNCHANGED <<file, exists, entries, hist, rev, fwd, bufsiz, cvars>>

\* bkl_write_unlocked has returned: new_log is not read again
BufferDead(w) ==
    /\ w_buf' = [w_buf EXCEPT ![w] = <<>>]
    /\ w_done' = [w_done EXCEPT ![w] = 0]
    /\ w_base' = [w_base EXCEPT ![w] = 0]

\* bkl_write_unlocked: open() of the log, creating it when absent
bkl_write_open(w) ==
    /\ w_pc[w] = "open"
    /\ \/ /\ exists' = TRUE
          /\ w_pc' = [w_pc EXCEPT ![w] = "write"]
          /\ UNCHANGED w_ret
          /\ UNCHANGED <<w_buf, w_done, w_base>>
       \/ /\ w_ret' = [w_ret EXCEPT ![w] = -1]      \* fd == -1
          /\ w_pc' = [w_pc EXCEPT ![w] = "rollback"]
          /\ UNCHANGED exists
          /\ BufferDead(w)
    /\ UNCHANGED <<file, lock, entries, hist, rev, fwd, bufsiz, cvars>>

\* bkl_write_unlocked: write_in_full(), one write() per step, then close()
bkl_write_append(w) ==
    /\ w_pc[w] = "write"
    /\ LET left == Len(w_buf[w]) - w_done[w] IN
       \/ /\ left > 0
          /\ \E n \in 1..left :
               /\ file' = append_write(file,
                              SubSeq(w_buf[w], w_done[w] + 1, w_done[w] + n))
               /\ w_done' = [w_done EXCEPT ![w] = w_done[w] + n]
          /\ hist' = IF WellFormed(w_buf[w]) \/ hist = "raw" THEN hist ELSE "raw"
          /\ entries' = IF hist' = "raw" THEN <<>> ELSE entries
          /\ UNCHANGED <<w_pc, w_ret, w_buf, w_base>>
       \/ /\ left = 0                               \* close(fd); return 0
          /\ w_pc' = [w_pc EXCEPT ![w] = "rollback"]
          /\ w_ret' = [w_ret EXCEPT ![w] = 0]
          /\ entries' = IF WellFormed(w_buf[w]) /\ hist # "raw"
                        THEN entries \o RecordsOf(w_buf[w])
                        ELSE entries
          /\ UNCHANGED <<file, hist>>
          /\ BufferDead(w)
       \/ /\ left > 0                               \* write_in_full() < 0
          /\ w_pc' = [w_pc EXCEPT ![w] = "rollback"]
          /\ w_ret' = [w_ret EXCEPT ![w] = -1]
          /\ hist' = IF w_done[w] > 0 /\ hist = "log" THEN "torn" ELSE hist
          /\ UNCHANGED <<file, entries>>
          /\ BufferDead(w)
    /\ UNCHANGED <<exists, lock, rev, fwd, bufsiz, cvars>>

\* bkl_write: the "return -1" taken when the lock could not be had
bkl_write_fail(w) ==
    /\ w_pc[w] = "failed"
    /\ w_pc' = [w_pc EXCEPT ![w] = "idle"]
    /\ w_ret' = [w_ret EXCEPT ![w] = None]
    /\ UNCHANGED <<file, exists, lock, w_buf, w_done, w_base, entries, hist, rev, fwd,
                   bufsiz, cvars>>

\* bkl_write: rollback_lock_file(&lk); return ret;
bkl_write_rollback(w) ==
    /\ w_pc[w] = "rollback"
    /\ file' = rollback_lock_file(file)
    /\ lock' = rollback_lock(lock, w, w_ret[w])
    /\ w_pc' = [w_pc EXCEPT ![w] = "idle"]
    /\ w_ret' = [w_ret EXCEPT ![w] = None]
    /\ UNCHANGED <<exists, w_buf, w_done, w_base, entries, hist, rev, fwd, bufsiz, cvars>>

\* ---------------------------------------------------------- reverse reader
\* faulty variant: strbuf_add: data goes behind what sb holds
strbuf_splice_behind(sb, data) == sb \o data

\* strbuf_splice(&sb, 0, 0, data, len): insert data in front of sb
strbuf_splice_front(sb, data) == data \o sb

\* while (bob < scan && *(--scan) != '\n') ; return scan;   (bob is buf + 0)
RECURSIVE find_beginning_of_line(_, _)
find_beginning_of_line(buf, scan) ==
    IF 0 < scan
    THEN IF buf[(scan - 1) + 1] # LF
         THEN find_beginning_of_line(buf, scan - 1)
         ELSE scan - 1
    ELSE scan

\* No call in progress.  len0, nent0 and hist0 record what the call found when
\* it opened the file; out is the sequence of lines handed to the callback.
\* A call that has returned leaves only its return value behind.
RevIdle ==
    [pc |-> "idle", pos |-> 0, sb |-> <<>>, ret |-> 0, at_tail |-> TRUE,
     buf |-> <<>>, scanp |-> 0, endp |-> 0, out |-> <<>>, stop |-> 0,
     ioerr |-> FALSE, len0 |-> 0, nent0 |-> 0, hist0 |-> "log"]

\* fopen() succeeded; fseek(SEEK_END); pos = ftell(logfp)
rev_open(flen) == [RevIdle EXCEPT !.pc = "loop", !.pos = flen, !.len0 = flen]

\* the loop condition "!ret && 0 < pos"
rev_more(fr) == fr.ret = 0 /\ 0 < fr.pos

\* faulty variant: the final LF of the file is scanned like any other
skip_final_lf_never(at_tail, buf, cnt) == cnt

\* "if (at_tail && scanp[-1] == '\n') scanp--;" with scanp = buf + cnt
skip_final_lf(at_tail, buf, cnt) ==
    IF at_tail /\ buf[(cnt - 1) + 1] = LF THEN cnt - 1 ELSE cnt

\* "Fill next block from the end" down to "at_tail = 0"
rev_fill(fr, f, B) ==
    LET cnt == IF B < fr.pos THEN B ELSE fr.pos
        buf == SubSeq(f, fr.pos - cnt + 1, fr.pos)
        scanp == skip_final_lf(fr.at_tail, buf, cnt)
    IN [fr EXCEPT !.pos = fr.pos - cnt,
                  !.buf = buf,
                  !.endp = cnt,
                  !.scanp = scanp,
                  !.at_tail = FALSE,
                  !.pc = IF 0 < scanp THEN "scan" ELSE "loop"]

\* parse(&sb, data) returning r, then strbuf_reset(&sb)
rev_callback(fr, line, r) ==
    [fr EXCEPT !.out = Append(fr.out, line),
               !.ret = r,
               !.stop = IF r # 0 THEN r ELSE fr.stop,
               !.sb = <<>>]

\* faulty variant: a "break" does not leave the inner loop
rev_next_no_break(fr, broke) ==
    [fr EXCEPT !.pc = IF 0 < fr.scanp THEN "scan" ELSE "loop"]

\* where the inner loop "while (buf < scanp)" goes after an iteration
rev_next(fr, broke) ==
    [fr EXCEPT !.pc = IF ~broke /\ 0 < fr.scanp THEN "scan" ELSE "loop"]

\* faulty variant: the saved part replaces the fragment instead of extending it
rev_save_overwriting(fr, bp) ==
    IF bp = 0
    THEN rev_next([fr EXCEPT !.sb = SubSeq(fr.buf, 1, fr.endp)], TRUE)
    ELSE rev_next(fr, FALSE)

\* "if (bp == buf)": keep buf..endp for the next, earlier block
rev_save(fr, bp) ==
    IF bp = 0
    THEN rev_next([fr EXCEPT !.sb = strbuf_splice_front(fr.sb, SubSeq(fr.buf, 1, fr.endp))],
                  TRUE)
    ELSE rev_next(fr, FALSE)

\* faulty variant: the scan of the block goes on after the callback said stop
rev_after_line_no_break(fr, bp, r) == rev_save(fr, bp)

\* "if (ret) break;" after a line found inside the block
rev_after_line(fr, bp, r) == IF r # 0 THEN rev_next(fr, TRUE) ELSE rev_save(fr, bp)

\* one iteration of "while (buf < scanp)"; r is what parse() returns if called
rev_scan(fr, r) ==
    LET bp == find_beginning_of_line(fr.buf, fr.scanp) IN
    IF fr.buf[bp + 1] = LF
    THEN LET line == strbuf_splice_front(fr.sb, SubSeq(fr.buf, (bp + 1) + 1, fr.endp))
             fr1 == rev_callback([fr EXCEPT !.scanp = bp, !.endp = bp + 1], line, r)
         IN rev_after_line(fr1, bp, r)
    ELSE IF fr.pos = 0
    THEN LET line == strbuf_splice_front(fr.sb, SubSeq(fr.buf, 1, fr.endp))
         IN rev_next(rev_callback(fr, line, r), TRUE)
    ELSE rev_save(fr, bp)

\* after the loop: the leftover check, fclose, return ret
rev_return(fr) ==
    IF fr.ret = 0 /\ Len(fr.sb) # 0
    THEN [RevIdle EXCEPT !.pc = "BUG"]
    ELSE [RevIdle EXCEPT !.pc = "done", !.ret = fr.ret]

\* The whole scan of content f with block size B and a callback that always
\* returns 0: the locals when the block loop has ended.
RECURSIVE rev_run(_, _, _)
rev_run(fr, f, B) ==
    IF fr.pc = "loop"
    THEN IF rev_more(fr) THEN rev_run(rev_fill(fr, f, B), f, B) ELSE fr
    ELSE rev_run(rev_scan(fr, 0), f, B)

\* ---------------------------------------------------------- forward reader
FwdIdle ==
    [pc |-> "idle", off |-> 0, eof |-> FALSE, ret |-> 0, out |-> <<>>,
     stop |-> 0, nent0 |-> 0, hist0 |-> "log"]

\* strbuf_getwholeline(&sb, logfp, '\n') on content f at offset off: the bytes
\* up to and including the next LF, or all that is left when there is none.
strbuf_getwholeline(f, off) ==
    LET rest == Drop(f, off)
        lfs == {i \in 1..Len(rest) : rest[i] = LF}
    IN IF lfs = {} THEN rest
       ELSE Take(rest, CHOOSE i \in lfs : \A j \in lfs : i <= j)

\* faulty variant: the loop goes on after the callback said stop
fwd_exit_ignoring_ret(fr, f) == fr.eof \/ fr.off = Len(f)

\* the loop condition fails: ret is set, or the stream is at its end
fwd_exit(fr, f) == fr.ret # 0 \/ fr.eof \/ fr.off = Len(f)

\* one evaluation of "while (!ret && !strbuf_getwholeline(...)) ret = parse()"
fwd_step(fr, f, r) ==
    IF fwd_exit(fr, f)
    THEN [FwdIdle EXCEPT !.pc = "done", !.ret = fr.ret]
    ELSE LET line == strbuf_getwholeline(f, fr.off) IN
         [fr EXCEPT !.off = fr.off + Len(line),
                    !.eof = line[Len(line)] # LF,
                    !.out = Append(fr.out, line),
                    !.ret = r,
                    !.stop = r]

\* bkl_parse_file on content f with a callback that always returns 0: the
\* locals when the loop has ended.
RECURSIVE fwd_run(_, _)
fwd_run(fr, f) == IF fwd_exit(fr, f) THEN fr ELSE fwd_run(fwd_step(fr, f, 0), f)

\* fopen() succeeded: the stream stands at offset 0
fwd_open == [FwdIdle EXCEPT !.pc = "loop"]

\* ------------------------------------------------------------ reader calls
\* faulty variant: a missing log is an error like any other
fopen_error_strict(missing) == -1

\* "if (errno == ENOENT || errno == ENOTDIR) return 0; return -1;" after a
\* failed fopen(); missing says that errno is one of the two
fopen_error(missing) == IF missing THEN 0 ELSE -1

ReaderFree == rev.pc \in {"idle", "done", "BUG"} /\ fwd.pc \in {"idle", "done"}

\* bkl_parse_file_reverse: fopen, fseek to the end, ftell
RevOpen ==
    /\ ReaderFree
    /\ \/ /\ ~exists                                \* ENOENT
          /\ rev' = [RevIdle EXCEPT !.pc = "done", !.ret = fopen_error(TRUE)]
       \/ rev' = [RevIdle EXCEPT !.pc = "done", !.ret = fopen_error(FALSE),
                                 !.ioerr = TRUE]
       \/ /\ exists
          /\ rev' = [rev_open(Len(file)) EXCEPT !.nent0 = Len(entries), !.hist0 = hist]
       \/ /\ exists                                 \* fseek failed
          /\ rev' = [rev_open(0) EXCEPT !.ret = -1, !.ioerr = TRUE,
                                        !.len0 = Len(file)]
    /\ fwd' = FwdIdle
    /\ UNCHANGED <<file, exists, wvars, entries, hist, bufsiz, cvars>>

\* one block read, or the fseek/fread error that ends the loop
RevFill ==
    /\ rev.pc = "loop"
    /\ rev_more(rev)
    /\ \/ rev' = rev_fill(rev, file, bufsiz)
       \/ rev' = [rev EXCEPT !.ret = -1, !.ioerr = TRUE]
    /\ UNCHANGED <<file, exists, wvars, entries, hist, fwd, bufsiz, cvars>>

RevScan ==
    /\ rev.pc = "scan"
    /\ \E r \in CallbackReturns : rev' = rev_scan(rev, r)
    /\ UNCHANGED <<file, exists, wvars, entries, hist, fwd, bufsiz, cvars>>

RevReturn ==
    /\ rev.pc = "loop"
    /\ ~rev_more(rev)
    /\ rev' = rev_return(rev)
    /\ UNCHANGED <<file, exists, wvars, entries, hist, fwd, bufsiz, cvars>>

\* bkl_parse_file: fopen
FwdOpen ==
    /\ ReaderFree
    /\ \/ /\ ~exists                                \* ENOENT
          /\ fwd' = [FwdIdle EXCEPT !.pc = "done", !.ret = fopen_error(TRUE)]
       \/ fwd' = [FwdIdle EXCEPT !.pc = "done", !.ret = fopen_error(FALSE)]
       \/ /\ exists
          /\ fwd' = [fwd_open EXCEPT !.nent0 = Len(entries), !.hist0 = hist]
    /\ rev' = RevIdle
    /\ UNCHANGED <<file, exists, wvars, entries, hist, bufsiz, cvars>>

FwdStep ==
    /\ fwd.pc = "loop"
    /\ \E r \in CallbackReturns : fwd' = fwd_step(fwd, file, r)
    /\ UNCHANGED <<file, exists, wvars, entries, hist, rev, bufsiz, cvars>>

\* ------------------------------------------------------------ record codec
\* An object id is HexSz half-bytes; two values of a half-byte are enough to
\* tell ids apart.
Nibbles == {0, 10}
Oids == [1..HexSz -> Nibbles]

\* What git_committer_info(0) is made of: "name <email>", the time and the
\* timezone of the committer.
Idents == {<<110, SP, 60, 101, GT>>}                \* "n <e>"
Actors == {[ident |-> n, time |-> 7, tz |-> 0] : n \in Idents}
          \cup {[ident |-> n, time |-> 10, tz |-> 100] : n \in Idents}
          \cup {[ident |-> n, time |-> 7, tz |-> -130] : n \in Idents}

\* Paths: no LF; tabs and digits anywhere, also in front; possibly empty.
PathChars == {TAB, 53, 112}                         \* TAB, '5', 'p'
Paths == SeqsUpTo(PathChars, MaxPathLen)

\* struct bkl_entry as the caller means it
Entry == [old_oid : Oids, new_oid : Oids, who : Actors, path : Paths]

\* one hex digit, lower case as oid_to_hex writes it
HexChar(n) == IF n < 10 THEN 48 + n ELSE 87 + n

\* oid_to_hex(oid)
oid_to_hex(oid) == [i \in 1..HexSz |-> HexChar(oid[i])]

\* "%d" of a number that is not negative
RECURSIVE Dec(_)
Dec(n) == IF n < 10 THEN <<48 + n>> ELSE Dec(n \div 10) \o <<48 + (n % 10)>>

\* the timezone as the ident code writes it: a sign and four digits
FormatTz(tz) ==
    LET a == IF tz < 0 THEN 0 - tz ELSE tz
    IN <<IF tz < 0 THEN MINUS ELSE PLUS,
         48 + ((a \div 1000) % 10), 48 + ((a \div 100) % 10),
         48 + ((a \div 10) % 10), 48 + (a % 10)>>

\* git_committer_info(0): "name <email> time zone"
git_committer_info(who) ==
    who.ident \o <<SP>> \o Dec(who.time) \o <<SP>> \o FormatTz(who.tz)

\* oideq(from, to)
oideq(from, to) == from = to

\* faulty variant: the line is added also when nothing changed
bkl_append_always(out, path, from, to, who) ==
    out \o oid_to_hex(from) \o <<SP>> \o oid_to_hex(to) \o <<SP>>
        \o git_committer_info(who) \o <<TAB>> \o path \o <<LF>>

\* bkl_append(output, path, from, to): strbuf_addf(output,
\* "%s %s %s\t%s\n", ...) unless from and to are equal; who is what
\* git_committer_info(0) would report at the time of the call
bkl_append(out, path, from, to, who) ==
    IF oideq(from, to)
    THEN out
    ELSE out \o oid_to_hex(from) \o <<SP>> \o oid_to_hex(to) \o <<SP>>
             \o git_committer_info(who) \o <<TAB>> \o path \o <<LF>>

\* No bkl_append call has been made on the output buffer.
ApIdle == [pc |-> "idle", noop |-> FALSE]

\* The byte *p of a C string held as a sequence; p counts from 0.
At(buf, p) == buf[p + 1]

\* the C string at p: the bytes in front of the next NUL
RECURSIVE CStr(_, _)
CStr(buf, p) == IF At(buf, p) = NUL THEN <<>> ELSE <<At(buf, p)>> \o CStr(buf, p + 1)

isdigit(c) == c \in 48..57

\* the value of a hex digit, -1 for any other byte
hexval(c) ==
    IF c \in 48..57 THEN c - 48
    ELSE IF c \in 97..102 THEN c - 87
    ELSE IF c \in 65..70 THEN c - 55
    ELSE -1

\* the value of a run of decimal digits
RECURSIVE DecVal(_)
DecVal(ds) ==
    IF ds = <<>> THEN 0
    ELSE 10 * DecVal(SubSeq(ds, 1, Len(ds) - 1)) + (ds[Len(ds)] - 48)

\* where the run of decimal digits that starts at p ends
RECURSIVE DigitsEnd(_, _)
DigitsEnd(buf, p) == IF isdigit(At(buf, p)) THEN DigitsEnd(buf, p + 1) ELSE p

\* n hex digits stand at p (the NUL behind the line is none)
RECURSIVE HexRun(_, _, _)
HexRun(buf, p, n) ==
    \/ n = 0
    \/ /\ hexval(At(buf, p)) >= 0
       /\ HexRun(buf, p + 1, n - 1)

\* parse_oid_hex(p, &oid, &p): 0, the id and the place behind it when HexSz
\* hex digits stand at p, -1 otherwise
parse_oid_hex(buf, p) ==
    IF HexRun(buf, p, HexSz)
    THEN [ret |-> 0, oid |-> [i \in 1..HexSz |-> hexval(At(buf, p + i - 1))],
          end |-> p + HexSz]
    ELSE [ret |-> -1, oid |-> <<>>, end |-> p]

\* strchr(p, c): the first c in the C string at p, -1 for NULL
RECURSIVE strchr(_, _, _)
strchr(buf, p, c) ==
    IF At(buf, p) = c THEN p
    ELSE IF At(buf, p) = NUL THEN -1
    ELSE strchr(buf, p + 1, c)

\* parse_timestamp(p, &end, 10): the decimal number at p and the place behind
\* it; 0 and p itself when no digit stands at p
parse_timestamp(buf, p) ==
    LET e == DigitsEnd(buf, p)
    IN [value |-> DecVal(SubSeq(buf, p + 1, e)), end |-> e]

\* strtol(p, NULL, 10) where p stands on a sign: the sign and all the digits
\* that follow it
strtol(buf, p) ==
    LET q == IF At(buf, p) \in {PLUS, MINUS} THEN p + 1 ELSE p
        v == DecVal(SubSeq(buf, q + 1, DigitsEnd(buf, q)))
    IN IF At(buf, p) = MINUS THEN 0 - v ELSE v

\* what bkl_parse_entry leaves in *re when it returns -1 is not looked at
NoEntry == [old_oid |-> <<>>, new_oid |-> <<>>, email |-> <<>>, timestamp |-> 0,
            tz |-> 0, path |-> <<>>]

\* faulty variant: three timezone digits are enough
time_corrupt_lax(buf, timestamp, message) ==
    \/ timestamp = 0
    \/ At(buf, message) # SP
    \/ (At(buf, message + 1) # PLUS /\ At(buf, message + 1) # MINUS)
    \/ ~isdigit(At(buf, message + 2))
    \/ ~isdigit(At(buf, message + 3))
    \/ ~isdigit(At(buf, message + 4))

\* "if (!re->timestamp || !message || message[0] != ' ' || ..." : the checks
\* are made left to right, none looks behind a byte that failed
time_corrupt(buf, timestamp, message) ==
    \/ timestamp = 0
    \/ At(buf, message) # SP
    \/ (At(buf, message + 1) # PLUS /\ At(buf, message + 1) # MINUS)
    \/ ~isdigit(At(buf, message + 2))
    \/ ~isdigit(At(buf, message + 3))
    \/ ~isdigit(At(buf, message + 4))
    \/ ~isdigit(At(buf, message + 5))

\* faulty variant: the tab in front of the path is never skipped
path_start_after_digits(buf, message) == message + 6

\* "if (message[6] != '\t') message += 6; else message += 7;"
path_start(buf, message) ==
    IF At(buf, message + 6) # TAB THEN message + 6 ELSE message + 7

\* bkl_parse_entry(sb, re) on a strbuf holding line: what it returns, what
\* the strbuf holds afterwards and what it stored in *re
bkl_parse_entry(line) ==
    LET buf == line \o <<NUL>>
        len == Len(line)
        corrupt == [ret |-> -1, sb |-> line, re |-> NoEntry]
    IN
    IF len = 0 \/ At(buf, len - 1) # LF THEN corrupt ELSE
    LET old == parse_oid_hex(buf, 0) IN
    IF old.ret # 0 \/ At(buf, old.end) # SP THEN corrupt ELSE
    LET new == parse_oid_hex(buf, old.end + 1) IN
    IF new.ret # 0 \/ At(buf, new.end) # SP THEN corrupt ELSE
    LET p == new.end + 1
        email_end == strchr(buf, p, GT)
    IN
    IF email_end = -1 \/ At(buf, email_end + 1) # SP THEN corrupt ELSE
    LET ts == parse_timestamp(buf, email_end + 2)
        message == ts.end
    IN
    IF time_corrupt(buf, ts.value, message) THEN corrupt ELSE
    LET buf1 == [buf EXCEPT ![(email_end + 1) + 1] = NUL]
        tz == strtol(buf1, message + 1)
        path == path_start(buf1, message)
        buf2 == [buf1 EXCEPT ![(len - 1) + 1] = NUL]
    IN [ret |-> 0,
        sb |-> SubSeq(buf2, 1, len),
        re |-> [old_oid |-> old.oid, new_oid |-> new.oid,
                email |-> CStr(buf2, p), timestamp |-> ts.value,
                tz |-> tz, path |-> CStr(buf2, path)]]

\* No bkl_parse_entry call has been made.
PeIdle == [pc |-> "idle", sb0 |-> <<>>, sb |-> <<>>, ret |-> 0, re |-> NoEntry,
           form |-> "none"]

\* The line of entry e as bkl_append writes it ("tab"), and as older versions
\* wrote it, the path right behind the timezone ("legacy").
EntryLine(e, form) ==
    oid_to_hex(e.old_oid) \o <<SP>> \o oid_to_hex(e.new_oid) \o <<SP>>
        \o git_committer_info(e.who)
        \o (IF form = "tab" THEN <<TAB>> ELSE <<>>) \o e.path \o <<LF>>

\* Lines that something damaged: an id cut short or not hex, the ">" gone, the
\* time zero, missing or not a number, the zone without its space or sign or
\* with three or five digits, the final LF gone.
GoodIds ==
    oid_to_hex([i \in 1..HexSz |-> 0]) \o <<SP>>
        \o oid_to_hex([i \in 1..HexSz |-> 10]) \o <<SP>>
DamagedIds == {GoodIds, Tail(GoodIds), [GoodIds EXCEPT ![HexSz + 2] = 120],
               SubSeq(GoodIds, 1, HexSz) \o SubSeq(GoodIds, HexSz + 2, Len(GoodIds))}
DamagedIdents == {<<110, SP, 60, 101, GT, SP>>, <<110, SP, 60, 101, SP>>,
                  <<110, SP, 60, 101, GT>>}
DamagedTimes == {<<55>>, <<49, 48>>, <<48>>, <<48, 48>>, <<>>, <<120>>}
DamagedZones == {<<SP, PLUS, 48, 49, 48, 48>>, <<SP, MINUS, 48, 49, 51, 48>>,
                 <<PLUS, 48, 49, 48, 48>>, <<SP, 48, 49, 48, 48>>,
                 <<SP, SP, PLUS, 48, 49, 48, 48>>, <<SP, PLUS, 48, 49, 48>>,
                 <<SP, PLUS, 48, 49, 48, 48, 53>>, <<SP, PLUS, 48, 120, 48, 48>>,
                 <<>>}
DamagedTails == {<<TAB, 112, LF>>, <<112, LF>>, <<TAB, LF>>, <<LF>>, <<TAB, 112>>,
                 <<53, LF>>}
DamagedLines ==
    {i \o n \o t \o z \o r :
        i \in DamagedIds, n \in DamagedIdents, t \in DamagedTimes,
        z \in DamagedZones, r \in DamagedTails}

\* the caller of a bkl_parse_entry call on a line that no entry is known for
NoCaller == [old_oid |-> <<>>, new_oid |-> <<>>,
             who |-> [ident |-> <<>>, time |-> 0, tz |-> 0], path |-> <<>>]

\* the record of a bkl_parse_entry call on line; ent and form say what the
\* line was made from
pe_called(line, ent, form) ==
    LET r == bkl_parse_entry(line)
    IN [pc |-> "called", sb0 |-> line, sb |-> r.sb, ret |-> r.ret, re |-> r.re,
        ent |-> ent, form |-> form]

\* a caller adds the line of one more entry to its output buffer
BklAppend ==
    /\ pe.pc = "idle"
    /\ \E e \in Entry :
         LET new == bkl_append(output, e.path, e.old_oid, e.new_oid, e.who) IN
         /\ Len(new) <= MaxOutput
         /\ output' = new
         /\ ap' = [pc |-> "called", noop |-> oideq(e.old_oid, e.new_oid)]
    /\ UNCHANGED <<pe, fvars>>

\* the caller has handed the buffer to bkl_write: strbuf_release(&output)
BklRelease ==
    /\ ap.pc = "called"
    /\ output' = <<>>
    /\ ap' = ApIdle
    /\ UNCHANGED <<pe, fvars>>

\* a callback decodes the line of an entry, in one of its two forms
BklParseEntry ==
    /\ output = <<>>
    /\ pe.pc = "idle"
    /\ \E e \in Entry, form \in {"tab", "legacy"} :
         pe' = pe_called(EntryLine(e, form), e, form)
    /\ ap' = ApIdle
    /\ UNCHANGED <<output, fvars>>

\* a callback decodes a damaged line
BklParseDamaged ==
    /\ output = <<>>
    /\ pe.pc = "idle"
    /\ \E line \in DamagedLines : pe' = pe_called(line, NoCaller, "damaged")
    /\ ap' = ApIdle
    /\ UNCHANGED <<output, fvars>>

\* the callback is done with the line
BklParseReturn ==
    /\ pe.pc = "called"
    /\ pe' = PeIdle
    /\ UNCHANGED <<output, ap, fvars>>

\* ----------------------------------------------------------- specification
InitCommon ==
    /\ file = <<>>
    /\ exists = FALSE
    /\ lock = None
    /\ w_pc = [w \in Writers |-> "idle"]
    /\ w_buf = [w \in Writers |-> <<>>]
    /\ w_done = [w \in Writers |-> 0]
    /\ w_base = [w \in Writers |-> 0]
    /\ w_ret = [w \in Writers |-> None]
    /\ entries = <<>>
    /\ hist = "log"
    /\ rev = RevIdle
    /\ fwd = FwdIdle
    /\ output = <<>>
    /\ ap = ApIdle
    /\ pe = PeIdle

\* BUFSIZ is at least 256 in every C implementation: a block always holds more
\* than one byte.  The model scales it down to 2..MaxBufsiz.
Init == InitCommon /\ bufsiz \in 2..MaxBufsiz

\* The scan algorithm alone, with any block size down to a single byte, on a
\* file of any content that nobody writes to.
InitAnyB ==
    /\ file \in SeqsUpTo(Bytes, MaxFileLen)
    /\ exists = TRUE
    /\ lock = None
    /\ w_pc = [w \in Writers |-> "idle"]
    /\ w_buf = [w \in Writers |-> <<>>]
    /\ w_done = [w \in Writers |-> 0]
    /\ w_base = [w \in Writers |-> 0]
    /\ w_ret = [w \in Writers |-> None]
    /\ entries = <<>>
    /\ hist = "raw"
    /\ rev = RevIdle
    /\ fwd = FwdIdle
    /\ output = <<>>
    /\ ap = ApIdle
    /\ pe = PeIdle
    /\ bufsiz \in 1..MaxBufsiz

Next ==
    \/ \E w \in Writers : bkl_write_call(w)
    \/ \E w \in Writers : bkl_write_open(w)
    \/ \E w \in Writers : bkl_write_append(w)
    \/ \E w \in Writers : bkl_write_fail(w)
    \/ \E w \in Writers : bkl_write_rollback(w)
    \/ RevOpen
    \/ RevFill
    \/ RevScan
    \/ RevReturn
    \/ FwdOpen
    \/ FwdStep

NextAnyB ==
    \/ RevOpen
    \/ RevFill
    \/ RevScan
    \/ RevReturn

\* the codec alone: callers encoding entries and callbacks decoding lines
NextCodec ==
    \/ BklAppend
    \/ BklRelease
    \/ BklParseEntry
    \/ BklParseDamaged
    \/ BklParseReturn

Spec == Init /\ [][Next]_vars
SpecCodec == Init /\ [][NextCodec]_vars
SpecAnyB == InitAnyB /\ [][NextAnyB]_vars

\* The scan algorithm as the process runs it: a call that has been entered
\* keeps executing its next statement (block read, inner-loop iteration,
\* leftover check and return) until it has left the function.
SpecAnyBFair ==
    /\ InitAnyB
    /\ [][NextAnyB]_vars
    /\ WF_vars(RevFill)
    /\ WF_vars(RevScan)
    /\ WF_vars(RevReturn)

\* ------------------------------------------------------------------ claims
\* The block loop of the reverse reader has ended: rev holds what the call
\* returns (ret), what it handed to the callback (out) and the leftover (sb).
RevExit == rev.pc = "loop" /\ ~rev_more(rev)

\* Every callback invocation returned 0 and no seek or read failed.
RevQuiet == rev.stop = 0 /\ ~rev.ioerr

\* The bytes the reverse reader found when it opened the file.
RevSnapshot == Take(file, rev.len0)

\* The forward reader is about to leave its loop.
FwdExit == fwd.pc = "loop" /\ fwd_exit(fwd, file)

\* C1: on a log built by appending the records e1..en, the reverse reader with
\* a callback that always returns 0 calls it exactly n times, with en..e1 in
\* that order, byte for byte, and returns 0; that is the forward reader's
\* sequence reversed.
C1_ReverseOfAppended ==
    (RevExit /\ RevQuiet) =>
        \A k \in 0..Len(entries) :
            RevSnapshot = Flatten(Take(entries, k)) =>
                /\ rev.out = Reverse(Take(entries, k))
                /\ Len(rev.out) = k
                /\ rev_return(rev).pc = "done"
                /\ rev_return(rev).ret = 0
                /\ rev.out = Reverse(fwd_run(fwd_open, RevSnapshot).out)

\* C1 witness: a log of at least two different records, longer than a block,
\* scanned to the end.
C1_Witness ==
    /\ RevExit /\ RevQuiet
    /\ RevSnapshot = Flatten(entries)
    /\ Len(entries) >= 2
    /\ entries[1] # entries[2]
    /\ rev.len0 > bufsiz
    /\ Len(rev.out) = Len(entries)

\* The lines a quiet scan of a well-formed log must deliver, for a given
\* block size: the same as with one block holding the whole file, every line
\* a record, the lines oldest-first making up the file.
ScanIsBlockIndependent ==
    (RevExit /\ RevQuiet /\ WellFormed(RevSnapshot)) =>
        /\ rev.out = rev_run(rev_open(rev.len0), RevSnapshot,
                             IF rev.len0 = 0 THEN 1 ELSE rev.len0).out
        /\ \A i \in 1..Len(rev.out) : IsRecord(rev.out[i])
        /\ Flatten(Reverse(rev.out)) = RevSnapshot

C3_NoLeftover ==
    /\ rev.pc # "BUG"
    /\ (RevExit /\ rev.stop = 0 /\ rev.pos = 0 /\ rev.ret = 0) => rev.sb = <<>>

\* A writer between taking the lock and releasing it.
Holding(w) == w_pc[w] \in {"open", "write", "rollback"}

\* C4: at most one bkl_write is between lock and unlock, and the bytes a
\* payload has written so far are one contiguous range at the end of the file,
\* nothing of another payload inside it.
C4_Serialized ==
    /\ Cardinality({w \in Writers : Holding(w)}) <= 1
    /\ \A w \in Writers : Holding(w) => lock = w
    /\ \A w \in Writers :
         w_pc[w] = "write" =>
            /\ Len(file) = w_base[w] + w_done[w]
            /\ Drop(file, w_base[w]) = Take(w_buf[w], w_done[w])

\* C4 witness: one writer part-way through a payload appended to older
\* content, the other turned away at the lock.
C4_Witness ==
    \E w \in Writers, v \in Writers :
        /\ w_pc[w] = "write"
        /\ 0 < w_done[w] /\ w_done[w] < Len(w_buf[w])
        /\ w_base[w] > 0
        /\ w_pc[v] = "failed"

\* C5: the file only grows at its end; a bkl_write that returns 0 leaves the
\* old content followed by exactly its payload; a bkl_write turned away at the
\* lock and both readers leave the file as it is.
C5_AppendOnly ==
    [][/\ IsPrefix(file, file')
       /\ exists => exists'
       /\ (rev' # rev \/ fwd' # fwd) => (file' = file /\ exists' = exists)
       /\ \A w \in Writers :
            /\ (w_pc[w] = "idle" /\ w_pc'[w] = "failed") =>
                   (file' = file /\ exists' = exists)
            /\ (w_pc[w] = "write" /\ w_pc'[w] = "rollback" /\ w_ret'[w] = 0) =>
                   /\ Len(file') = w_base[w] + Len(w_buf[w])
                   /\ file' = Take(file, w_base[w]) \o w_buf[w]
      ]_vars

\* C5 witness: a payload of several bytes, written in more than one step
\* behind older content, is complete and the call is about to return 0.
C5_Witness ==
    \E w \in Writers :
        /\ w_pc[w] = "write"
        /\ w_done[w] = Len(w_buf[w])
        /\ Len(w_buf[w]) >= 2
        /\ w_base[w] > 0
        /\ rev.pc = "scan"

\* C6: after successful appends of e1..en to an absent log, and nothing else,
\* the forward reader with a callback that always returns 0 calls it exactly n
\* times, with e1..en in that order, and returns 0.
C6_ForwardOrder ==
    (/\ FwdExit
     /\ fwd.stop = 0
     /\ hist = "log"
     /\ \A w \in Writers : w_pc[w] # "write"
     /\ fwd.nent0 = Len(entries)) =>
        /\ fwd.out = entries
        /\ Len(fwd.out) = Len(entries)
        /\ fwd.ret = 0
        /\ fwd_step(fwd, file, 0).pc = "done"
        /\ fwd_step(fwd, file, 0).ret = 0

\* C6 witness: two different records appended and read back.
C6_Witness ==
    /\ FwdExit
    /\ fwd.stop = 0
    /\ hist = "log"
    /\ \A w \in Writers : w_pc[w] # "write"
    /\ fwd.nent0 = Len(entries)
    /\ Len(entries) >= 2
    /\ entries[1] # entries[2]
    /\ Len(fwd.out) = Len(entries)

\* The lines (in file order) make up content; none is empty or has a LF
\* inside; only the last may lack its LF; the first n are the first n records
\* appended.
LinesIntact(lines, content, n) ==
    /\ Flatten(lines) = content
    /\ \A i \in 1..Len(lines) :
         /\ Len(lines[i]) > 0
         /\ \A j \in 1..(Len(lines[i]) - 1) : lines[i][j] # LF
    /\ \A i \in 1..(Len(lines) - 1) : lines[i][Len(lines[i])] = LF
    /\ n <= Len(lines)
    /\ Take(lines, n) = Take(entries, n)

\* What a reader that ran to the end must have delivered, when the history of
\* the log at its fopen was one of ok and only records were written since.
ReadersSeeDamageOnlyAtEnd(ok) ==
    /\ (RevExit /\ RevQuiet /\ rev.hist0 \in ok /\ hist # "raw") =>
           LinesIntact(Reverse(rev.out), RevSnapshot, rev.nent0)
    /\ (FwdExit /\ fwd.stop = 0 /\ fwd.hist0 \in ok /\ hist # "raw") =>
           LinesIntact(fwd.out, Take(file, fwd.off), fwd.nent0)

C8_LockFailure ==
    [][\A w \in Writers :
         /\ (w_pc[w] = "idle" /\ lock # None /\ w_pc'[w] # "idle") =>
                /\ w_pc'[w] = "failed"
                /\ w_ret'[w] = -1
                /\ file' = file /\ exists' = exists /\ lock' = lock
         /\ (w_pc[w] = "failed" /\ w_pc'[w] # "failed") =>
                /\ w_pc'[w] = "idle"
                /\ w_ret[w] = -1
                /\ file' = file /\ exists' = exists /\ lock' = lock
      ]_vars

\* C8 witness: a writer turned away while the holder is in the middle of its
\* payload.
C8_Witness ==
    \E w \in Writers, v \in Writers :
        /\ w_pc[w] = "failed"
        /\ w_ret[w] = -1
        /\ lock = v /\ v # w
        /\ w_pc[v] = "write"
        /\ w_done[v] > 0

\* C9: every bkl_write that took the lock gives it back before it returns,
\* whatever bkl_write_unlocked returned, and by a rollback that leaves the log
\* alone; with no call in progress the lock is free.
C9_LockReleased ==
    /\ []((\A w \in Writers : ~Holding(w)) => lock = None)
    /\ [](\A w \in Writers : ~Holding(w) => lock # w)
    /\ [][\A w \in Writers :
            (Holding(w) /\ ~Holding(w)') =>
               /\ w_pc[w] = "rollback"
               /\ w_pc'[w] = "idle"
               /\ w_ret[w] \in {0, -1}
               /\ lock' = None
               /\ file' = file /\ exists' = exists
         ]_vars

\* C9 witness: a call whose write failed part-way is about to roll back.
C9_Witness ==
    \E w \in Writers :
        /\ w_pc[w] = "rollback"
        /\ w_ret[w] = -1
        /\ lock = w
        /\ hist = "torn"
        /\ Len(file) > 0

\* C10: once the callback has returned r # 0 the reverse reader calls it no
\* more, reads no further block, raises no BUG and returns exactly r.
C10_EarlyStop ==
    /\ [](rev.stop # 0 => (rev.pc = "loop" /\ rev.ret = rev.stop /\ ~rev_more(rev)))
    /\ [][(rev.stop # 0 /\ rev' # rev) =>
             /\ rev'.pc = "done"
             /\ rev'.ret = rev.stop
         ]_vars
    /\ [][(rev.pc = "scan" /\ rev'.stop # 0) =>
             Len(rev'.out) = Len(rev.out) + 1
         ]_vars

\* C10 witness: the callback stopped the scan on a line stitched from several
\* blocks, with older lines still unread.
C10_Witness ==
    /\ rev.stop # 0
    /\ rev.pc = "loop"
    /\ rev.pos > 0
    /\ Len(rev.out) >= 1
    /\ Len(rev.out[Len(rev.out)]) > bufsiz

\* C11: the forward reader hands the lines to the callback in file order; once
\* the callback has returned r # 0 no further line is read or delivered and
\* the call returns exactly r; a callback that never stops makes it return 0
\* after the last line.
C11_ForwardEarlyStop ==
    /\ [](fwd.pc = "loop" => Flatten(fwd.out) = Take(file, fwd.off))
    /\ [](fwd.stop # 0 =>
             (fwd.pc = "loop" /\ fwd.ret = fwd.stop /\ fwd_exit(fwd, file)))
    /\ [][(fwd.stop # 0 /\ fwd' # fwd) =>
             /\ fwd'.pc = "done"
             /\ fwd'.ret = fwd.stop
         ]_vars
    /\ [][(fwd.pc = "loop" /\ fwd'.pc = "loop" /\ fwd' # fwd) =>
             /\ fwd.ret = 0
             /\ Len(fwd'.out) = Len(fwd.out) + 1
             /\ Take(fwd'.out, Len(fwd.out)) = fwd.out
             /\ fwd'.out[Len(fwd'.out)] = SubSeq(file, fwd.off + 1, fwd'.off)
             /\ fwd'.ret = fwd'.stop
         ]_vars
    /\ [][(fwd.pc = "loop" /\ fwd.stop = 0 /\ fwd'.pc = "done") =>
             /\ fwd'.ret = 0
             /\ (fwd.off = Len(file) \/ fwd.eof)
         ]_vars

\* C11 witness: the callback stopped the forward reader on its second line,
\* with more of the file unread.
C11_Witness ==
    /\ fwd.pc = "loop"
    /\ fwd.stop # 0
    /\ Len(fwd.out) >= 2
    /\ fwd.off < Len(file)
    /\ fwd.out[1] # fwd.out[2]

LinesOf(out) == fwd_run(fwd_open, out).out

\* C13: bkl_append with from = to leaves the output buffer as it is; with
\* from # to it adds exactly one LF-terminated line behind what the buffer
\* held; so every line of the buffer is a record whose old id is not its new
\* id.
C13_NoOpSuppressed ==
    /\ [][(ap'.pc = "called" /\ (ap' # ap \/ output' # output)) =>
             IF ap'.noop
             THEN output' = output
             ELSE /\ IsPrefix(output, output')
                  /\ Len(LinesOf(output')) = Len(LinesOf(output)) + 1
                  /\ output'[Len(output')] = LF
                  /\ \A i \in (Len(output) + 1)..(Len(output') - 1) : output'[i] # LF
         ]_vars
    /\ [](\A i \in 1..Len(LinesOf(output)) :
             LET r == bkl_parse_entry(LinesOf(output)[i])
             IN r.ret = 0 /\ r.re.old_oid # r.re.new_oid)

\* C13 witness: a call with from = to on a buffer that holds two lines.
C13_Witness ==
    /\ ap.pc = "called"
    /\ ap.noop
    /\ Len(LinesOf(output)) = 2
    /\ LinesOf(output)[1] # LinesOf(output)[2]

\* The fields of a decoded entry that a caller compares.
Fields(re) == <<re.old_oid, re.new_oid, re.timestamp, re.tz, re.path>>

\* C14: the line bkl_append writes for an entry with old id # new id decodes
\* in bkl_parse_entry, with success, to the ids, the time, the timezone and
\* the path of the entry, whether the path is empty, holds tabs or begins
\* with one.
C14_RoundTrip ==
    (pe.pc = "called" /\ pe.form = "tab" /\ pe.ent.old_oid # pe.ent.new_oid) =>
        /\ pe.sb0 = bkl_append(<<>>, pe.ent.path, pe.ent.old_oid, pe.ent.new_oid,
                               pe.ent.who)
        /\ pe.ret = 0
        /\ Fields(pe.re) = <<pe.ent.old_oid, pe.ent.new_oid, pe.ent.who.time,
                             pe.ent.who.tz, pe.ent.path>>

\* C14 witness: an entry with a negative timezone and a path of a tab and
\* another byte went through bkl_append and bkl_parse_entry.
C14_Witness ==
    /\ pe.pc = "called"
    /\ pe.form = "tab"
    /\ pe.ent.old_oid # pe.ent.new_oid
    /\ pe.ent.who.tz < 0
    /\ Len(pe.ent.path) = 2
    /\ pe.ent.path[1] = TAB
    /\ pe.ret = 0

\* C15: the legacy line of a record (the path right behind the four timezone
\* digits) decodes, with success, to the same ids, time, timezone and path as
\* the line with the tab.  Paths that begin with a tab are left out: their
\* legacy line is the tab line of another path.
C15_LegacySameFields ==
    (/\ pe.pc = "called"
     /\ pe.form = "legacy"
     /\ pe.ent.old_oid # pe.ent.new_oid
     /\ (pe.ent.path = <<>> \/ pe.ent.path[1] # TAB)) =>
        LET t == bkl_parse_entry(EntryLine(pe.ent, "tab"))
        IN /\ pe.ret = 0
           /\ t.ret = 0
           /\ Fields(pe.re) = Fields(t.re)

\* What C16 calls a bad time field, for a line that has "> " in it: the time
\* behind it is missing or zero, or is not followed by a space, a sign and
\* four digits (exactly four when exact, at least four otherwise).
BadTimeField(line, exact) ==
    LET buf == line \o <<NUL>>
        g == strchr(buf, 0, GT)
    IN /\ g # -1
       /\ At(buf, g + 1) = SP
       /\ LET t0 == g + 2
              t1 == DigitsEnd(buf, t0)
          IN \/ t1 = t0
             \/ DecVal(SubSeq(buf, t0 + 1, t1)) = 0
             \/ At(buf, t1) # SP
             \/ At(buf, t1 + 1) \notin {PLUS, MINUS}
             \/ LET n == DigitsEnd(buf, t1 + 2) - (t1 + 2)
                IN IF exact THEN n # 4 ELSE n < 4

\* bkl_parse_entry returns -1 for every line with a bad time field, and a
\* call that returns -1 leaves the line as it was.
BadTimeIsCorrupt(exact) ==
    pe.pc = "called" =>
        /\ BadTimeField(pe.sb0, exact) => pe.ret = -1
        /\ pe.ret = -1 => pe.sb = pe.sb0

\* C16 as claimed: a timezone of fewer or of more than four digits is corrupt.
C16_StrictTime == BadTimeIsCorrupt(TRUE)

\* C16 as amended: a timezone of fewer than four digits is corrupt; a fifth
\* digit is the first byte of a legacy path.
C16_StrictTimeFourOrMore == BadTimeIsCorrupt(FALSE)

\* C16 witness: a line with a three-digit timezone in front of a tab was
\* turned down and left as it was.
C16_Witness ==
    /\ pe.pc = "called"
    /\ pe.form = "damaged"
    /\ BadTimeField(pe.sb0, FALSE)
    /\ ~BadTimeField(SubSeq(pe.sb0, 1, Len(pe.sb0) - 4) \o <<48>>
                        \o SubSeq(pe.sb0, Len(pe.sb0) - 3, Len(pe.sb0)), FALSE)
    /\ Len(pe.sb0) > 4
    /\ pe.sb0[Len(pe.sb0) - 2] = TAB
    /\ pe.ret = -1
    /\ pe.sb = pe.sb0

\* The block loop of the reverse reader is about to read one more block.
RevAtBlockStart == rev.pc = "loop" /\ rev_more(rev)

\* Where in the file the line handed to the callback last begins (the end of
\* the file when no line was handed over yet), if the lines lie end to end.
RevEmittedFrom == rev.len0 - Len(Flatten(rev.out))

\* C17: when the block loop starts an iteration the fragment is the file bytes
\* from pos to the start of the line emitted last (to the end of the file when
\* none was emitted): bytes of one line not yet emitted, LF at most as the
\* last byte, the emitted lines lying end to end behind it; right after a
\* callback the fragment holds nothing of the line handed over.
C17_FragmentInvariant ==
    /\ [](RevAtBlockStart =>
             /\ rev.pos <= RevEmittedFrom
             /\ rev.sb = SubSeq(file, rev.pos + 1, RevEmittedFrom)
             /\ Flatten(Reverse(rev.out)) = SubSeq(file, RevEmittedFrom + 1, rev.len0)
             /\ \A i \in 1..(Len(rev.sb) - 1) : rev.sb[i] # LF)
    /\ [][(rev.pc = "scan" /\ Len(rev'.out) = Len(rev.out) + 1) =>
             \/ rev'.sb = <<>>
             \/ /\ rev'.sb = <<LF>>
                /\ rev'.pc = "loop"
                /\ file[rev'.pos + 1] = LF
         ]_vars

\* C17 witness: a fragment put together from two blocks, a third block still
\* to come, behind a line that was already emitted.
C17_Witness ==
    /\ RevAtBlockStart
    /\ Len(rev.sb) > bufsiz
    /\ Len(rev.out) >= 1

\* C18: whatever the file holds, the reverse reader with a callback that
\* never stops returns 0 and has handed over exactly the lines the forward
\* reader hands over for the same bytes, in reverse order.
C18_ForwardReverseAgree ==
    (RevExit /\ RevQuiet) =>
        /\ rev_return(rev).pc = "done"
        /\ rev_return(rev).ret = 0
        /\ rev.out = Reverse(fwd_run(fwd_open, RevSnapshot).out)

\* A step of the block loop that read a block (no seek or read error).
RevBlockRead ==
    /\ rev.pc = "loop"
    /\ rev'.pc \in {"loop", "scan"}
    /\ rev' # rev
    /\ ~rev'.ioerr

\* One iteration of the inner loop "while (buf < scanp)".
RevInnerIteration == rev.pc = "scan" /\ rev' # rev

\* C19: for every content, every block size from one byte up and every
\* callback behaviour a call of the reverse reader that has opened the file
\* ends after finitely many steps (by its return statement, or by the BUG of the
\* leftover check in front of it).  pos stays within 0..length and the first
\* block ends at the end of the file; each block read takes the bytes
\* [pos - min(B, pos), pos) and lowers pos by that positive count, so the
\* blocks tile the file from the end; each inner-loop iteration lowers the scan
\* cursor or leaves the inner loop, and does not move pos.
C19_ReverseTerminates ==
    /\ [](rev.pc \in {"loop", "scan"} =>
            /\ 0 <= rev.pos /\ rev.pos <= rev.len0
            /\ 0 <= rev.scanp /\ rev.scanp <= Len(rev.buf)
            /\ (rev.at_tail /\ ~rev.ioerr => rev.pos = rev.len0)
            /\ (rev.pc = "scan" => 0 < rev.scanp))
    /\ [][RevBlockRead =>
            LET cnt == IF bufsiz < rev.pos THEN bufsiz ELSE rev.pos IN
            /\ 1 <= cnt
            /\ rev'.pos = rev.pos - cnt
            /\ rev'.pos < rev.pos
            /\ 0 <= rev'.pos
            /\ rev'.buf = SubSeq(file, rev'.pos + 1, rev.pos)
            /\ ~rev'.at_tail]_vars
    /\ [][RevInnerIteration =>
            /\ rev'.pos = rev.pos
            /\ \/ rev'.pc = "scan" /\ rev'.scanp < rev.scanp
               \/ rev'.pc = "loop"]_vars
    /\ (rev.pc \in {"loop", "scan"}) ~> (rev.pc \in {"done", "BUG"})

\* A scan that took at least three blocks and several inner-loop iterations
\* has reached the start of the file and is about to return.
C19_Witness ==
    /\ RevExit
    /\ rev.pos = 0
    /\ rev.len0 > 2 * bufsiz
    /\ Len(rev.out) >= 2
    /\ rev.stop = 0
    /\ ~rev.ioerr

====
